---------------------------- MODULE Spec2Model ----------------------------
(***************************************************************************)
(* Black-Scholes option pricer: the procedural variant                     *)
(* (bs_option_pricer.py) and the object-oriented variant                   *)
(* (bs_option_pricer_oop.py).                                              *)
(*                                                                         *)
(* A Python float is modelled as a fixed-point number: the integer v       *)
(* stands for v / ONE.  Every arithmetic operation rounds its exact result *)
(* to the nearest representable number (ties away from zero), as a float   *)
(* operation does, so that multiplication is commutative and negation is   *)
(* exact but multiplication is not associative.  math.log, math.exp and    *)
(* math.sqrt are computed by series in that arithmetic; norm.cdf follows   *)
(* the shape of scipy's ndtr (the tail of |x|, reflected for x > 0).       *)
(***************************************************************************)
EXTENDS Integers, Sequences, FiniteSets, TLC

ONE == 1000

Abs(x) == IF x < 0 THEN -x ELSE x

\* n / d rounded to the nearest integer, ties away from zero (d > 0)
RoundDiv(n, d) == IF n >= 0 THEN (n + d \div 2) \div d
                            ELSE -((-n + d \div 2) \div d)

\* float * float
fmul(a, b) == RoundDiv(a * b, ONE)

\* float / float, b # 0
fdiv(a, b) == IF b > 0 THEN RoundDiv(a * ONE, b) ELSE RoundDiv(-(a * ONE), -b)

\* the float of an int literal (2, 100, 365)
lit(n) == n * ONE

RECURSIVE Newton(_, _)
Newton(n, g) == LET h == (g + n \div g) \div 2
                IN  IF h >= g THEN g ELSE Newton(n, h)

\* math.sqrt(x) for x >= 0
math_sqrt(x) == IF x = 0 THEN 0 ELSE Newton(x * ONE, x + ONE)

RECURSIVE ExpTerms(_, _, _)
\* sum of the Taylor terms f^k/k! from term number k on, term = f^(k-1)/(k-1)!
ExpTerms(f, term, k) ==
    LET next == RoundDiv(term * f, k * ONE)
    IN  IF next = 0 THEN 0 ELSE next + ExpTerms(f, next, k + 1)

RECURSIVE ExpInt(_)
\* e^n for an integer n; below e^-8 the result rounds to zero
ExpInt(n) == IF n < -8 THEN 0
             ELSE IF n = 0 THEN ONE
             ELSE IF n > 0 THEN fmul(ExpInt(n - 1), 2718)
             ELSE fmul(ExpInt(n + 1), 368)

\* math.exp(x)
math_exp(x) == LET n == x \div ONE
                   f == x - n * ONE
               IN  fmul(ExpInt(n), ONE + ExpTerms(f, ONE, 1))

RECURSIVE math_log(_)
\* math.log(x) for x > 0
math_log(x) ==
    IF x > 1414 THEN 693 + math_log(RoundDiv(x, 2))
    ELSE IF x < 708 THEN math_log(2 * x) - 693
    ELSE LET y  == fdiv(x - ONE, x + ONE)
             y2 == fmul(y, y)
             y3 == fmul(y2, y)
             y5 == fmul(y3, y2)
         IN  2 * (y + RoundDiv(y3, 3) + RoundDiv(y5, 5))

\* norm.pdf(x) = exp(-x**2/2) / sqrt(2*pi)
norm_pdf(x) == fdiv(math_exp(-fdiv(fmul(x, x), lit(2))), 2507)

\* upper tail 1 - Phi(z) of the standard normal at z = 0, 0.25, 0.5, ...
TailTable == << 500, 401, 309, 227, 159, 106, 67, 40, 23, 12, 6, 3, 1, 1, 0 >>

\* the tail at z >= 0, interpolated between the tabulated points
UpperTail(z) == LET i == z \div 250
               f == z - i * 250
           IN  IF i + 2 > Len(TailTable) THEN 0
               ELSE TailTable[i + 1]
                    - RoundDiv((TailTable[i + 1] - TailTable[i + 2]) * f, 250)

\* norm.cdf(x)
norm_cdf(x) == IF x > 0 THEN ONE - UpperTail(x) ELSE UpperTail(-x)


(***************************************************************************)
(* Strings are sequences of one-character strings.                         *)
(***************************************************************************)
DigitChars == << "0", "1", "2", "3", "4", "5", "6", "7", "8", "9" >>
UpperChars == << "A", "C", "L", "P", "T", "U", "X" >>
LowerChars == << "a", "c", "l", "p", "t", "u", "x" >>

IsDigit(c) == \E i \in 1..10 : DigitChars[i] = c
DigitValue(c) == (CHOOSE i \in 1..10 : DigitChars[i] = c) - 1

\* str.lower()
lower(s) == [i \in 1..Len(s) |->
               IF \E j \in 1..Len(UpperChars) : UpperChars[j] = s[i]
               THEN LowerChars[CHOOSE j \in 1..Len(UpperChars) : UpperChars[j] = s[i]]
               ELSE s[i]]

RECURSIVE replace(_, _, _)
\* str.replace(old, new) for a one-character old
replace(s, old, new) ==
    IF s = << >> THEN << >>
    ELSE (IF Head(s) = old THEN new ELSE << Head(s) >>) \o replace(Tail(s), old, new)

\* old in s
contains(s, old) == \E i \in 1..Len(s) : s[i] = old

RECURSIVE DigitsValue(_)
\* the integer a string of digits denotes
DigitsValue(s) == IF s = << >> THEN 0
                  ELSE DigitsValue(SubSeq(s, 1, Len(s) - 1)) * 10 + DigitValue(s[Len(s)])

RECURSIVE Pow10(_)
Pow10(n) == IF n = 0 THEN 1 ELSE 10 * Pow10(n - 1)

\* float(s): [sign] digits [. [digits]] or [sign] . digits; anything else
\* raises ValueError
float(s) ==
    LET signed == s # << >> /\ Head(s) \in { "-", "+" }
        body == IF signed THEN Tail(s) ELSE s
        dots == { i \in 1..Len(body) : body[i] = "." }
        dot == IF dots = { } THEN Len(body) + 1 ELSE CHOOSE i \in dots : TRUE
        whole == SubSeq(body, 1, dot - 1)
        frac == SubSeq(body, dot + 1, Len(body))
        wellFormed == /\ Cardinality(dots) <= 1
                      /\ \A i \in 1..Len(body) : i \in dots \/ IsDigit(body[i])
                      /\ Len(whole) + Len(frac) >= 1
        magnitude == DigitsValue(whole) * ONE
                       + RoundDiv(DigitsValue(frac) * ONE, Pow10(Len(frac)))
    IN  IF ~wellFormed THEN [tag |-> "ValueError", val |-> 0]
        ELSE [tag |-> "ok",
              val |-> IF signed /\ Head(s) = "-" THEN -magnitude ELSE magnitude]

RECURSIVE DigitsOf(_)
\* the decimal digits of n >= 0
DigitsOf(n) == IF n < 10 THEN << DigitChars[n + 1] >>
               ELSE DigitsOf(n \div 10) \o << DigitChars[(n % 10) + 1] >>

RECURSIVE StripZeros(_)
StripZeros(s) == IF Len(s) > 1 /\ s[Len(s)] = "0"
                 THEN StripZeros(SubSeq(s, 1, Len(s) - 1)) ELSE s

\* str(x) of a float x: sign, whole part, point, fraction (at least one digit)
str(x) ==
    LET m == Abs(x)
        f == m % ONE
        pad == IF f < 10 THEN << "0", "0" >> ELSE IF f < 100 THEN << "0" >> ELSE << >>
    IN  (IF x < 0 THEN << "-" >> ELSE << >>)
          \o DigitsOf(m \div ONE) \o << "." >> \o StripZeros(pad \o DigitsOf(f))

(***************************************************************************)
(* Outcomes of a call: a returned float, a returned None, or an uncaught   *)
(* exception.                                                              *)
(***************************************************************************)
Ok(v) == [tag |-> "ok", val |-> v]
NoneResult == [tag |-> "None", val |-> 0]
Raise(e) == [tag |-> e, val |-> 0]

\* option types as the strings (sequences of characters) the code compares
STR_C == << "c" >>
STR_CALL == << "c", "a", "l", "l" >>
STR_P == << "p" >>
STR_PUT == << "p", "u", "t" >>
CallKinds == { STR_C, STR_CALL }
PutKinds == { STR_P, STR_PUT }

(***************************************************************************)
(* Procedural variant, bs_option_pricer.py                                 *)
(***************************************************************************)
\* the exception, if any, of evaluating the d1 expression, in evaluation order
d1_raises(S, K, r, t, sigma) ==
    IF K = 0 THEN "ZeroDivisionError"
    ELSE IF fdiv(S, K) <= 0 THEN "ValueError"
    ELSE IF t < 0 THEN "ValueError"
    ELSE IF fmul(sigma, math_sqrt(t)) = 0 THEN "ZeroDivisionError"
    ELSE "ok"

\* d1 = (math.log(S/K) + (r + (sigma**2)/2)*t)/(sigma*math.sqrt(t))
d1_value(S, K, r, t, sigma) ==
    fdiv(math_log(fdiv(S, K)) + fmul(r + fdiv(fmul(sigma, sigma), lit(2)), t),
         fmul(sigma, math_sqrt(t)))

\* d2 = d1 - sigma*math.sqrt(t)
d2_value(d1, t, sigma) == d1 - fmul(sigma, math_sqrt(t))

\* bsmodel with the put leg taken at N(d1) instead of N(-d1)
bsmodel_put_uses_N_d1(option_type, S, K, r, t, sigma) ==
    LET e == d1_raises(S, K, r, t, sigma)
        d1 == d1_value(S, K, r, t, sigma)
        d2 == d2_value(d1, t, sigma)
        N_d1 == norm_cdf(d1)
        N_d2 == norm_cdf(d2)
        N_neg_d2 == norm_cdf(-d2)
    IN  IF e # "ok" THEN Raise(e)
        ELSE IF option_type \in CallKinds
             THEN Ok(fmul(N_d1, S) - fmul(fmul(N_d2, K), math_exp(fmul(-r, t))))
        ELSE IF option_type \in PutKinds
             THEN Ok(fmul(fmul(math_exp(fmul(-r, t)), K), N_neg_d2) - fmul(S, N_d1))
        ELSE NoneResult

bsmodel(option_type, S, K, r, t, sigma) ==
    LET e == d1_raises(S, K, r, t, sigma)
        d1 == d1_value(S, K, r, t, sigma)
        d2 == d2_value(d1, t, sigma)
        N_d1 == norm_cdf(d1)
        N_d2 == norm_cdf(d2)
        N_neg_d1 == norm_cdf(-d1)
        N_neg_d2 == norm_cdf(-d2)
    IN  IF e # "ok" THEN Raise(e)
        ELSE IF option_type \in CallKinds
             THEN Ok(fmul(N_d1, S) - fmul(fmul(N_d2, K), math_exp(fmul(-r, t))))
        ELSE IF option_type \in PutKinds
             THEN Ok(fmul(fmul(math_exp(fmul(-r, t)), K), N_neg_d2) - fmul(S, N_neg_d1))
        ELSE NoneResult

\* delta with the sign of the put branch dropped
delta_put_unsigned(option_type, S, K, r, t, sigma) ==
    LET e == d1_raises(S, K, r, t, sigma)
        d1 == d1_value(S, K, r, t, sigma)
    IN  IF e # "ok" THEN Raise(e)
        ELSE IF option_type \in CallKinds THEN Ok(norm_cdf(d1))
        ELSE IF option_type \in PutKinds THEN Ok(norm_cdf(-d1))
        ELSE NoneResult

delta(option_type, S, K, r, t, sigma) ==
    LET e == d1_raises(S, K, r, t, sigma)
        d1 == d1_value(S, K, r, t, sigma)
    IN  IF e # "ok" THEN Raise(e)
        ELSE IF option_type \in CallKinds THEN Ok(norm_cdf(d1))
        ELSE IF option_type \in PutKinds THEN Ok(-norm_cdf(-d1))
        ELSE NoneResult

gamma(S, K, r, t, sigma) ==
    LET e == d1_raises(S, K, r, t, sigma)
        d1 == d1_value(S, K, r, t, sigma)
        N_d1 == norm_pdf(d1)
        den == fmul(fmul(S, sigma), math_sqrt(t))
    IN  IF e # "ok" THEN Raise(e)
        ELSE IF den = 0 THEN Raise("ZeroDivisionError")
        ELSE Ok(fdiv(N_d1, den))

theta(option_type, S, K, r, t, sigma) ==
    LET e == d1_raises(S, K, r, t, sigma)
        d1 == d1_value(S, K, r, t, sigma)
        d2 == d2_value(d1, t, sigma)
        N_d1 == norm_pdf(d1)
        N_d2 == norm_cdf(d2)
        N_neg_d2 == norm_cdf(-d2)
        decay == fdiv(fmul(fmul(-S, N_d1), sigma), fmul(lit(2), math_sqrt(t)))
        carry == fmul(fmul(r, K), math_exp(fmul(-r, t)))
    IN  IF e # "ok" THEN Raise(e)
        ELSE IF option_type \in CallKinds
             THEN Ok(fdiv(decay - fmul(carry, N_d2), lit(365)))
        ELSE IF option_type \in PutKinds
             THEN Ok(fdiv(decay + fmul(carry, N_neg_d2), lit(365)))
        ELSE NoneResult

vega(S, K, r, t, sigma) ==
    LET e == d1_raises(S, K, r, t, sigma)
        d1 == d1_value(S, K, r, t, sigma)
        N_d1 == norm_pdf(d1)
    IN  IF e # "ok" THEN Raise(e)
        ELSE Ok(fdiv(fmul(fmul(S, math_sqrt(t)), N_d1), lit(100)))

rho(option_type, S, K, r, t, sigma) ==
    LET e == d1_raises(S, K, r, t, sigma)
        d1 == d1_value(S, K, r, t, sigma)
        d2 == d2_value(d1, t, sigma)
        N_d2 == norm_cdf(d2)
        N_neg_d2 == norm_cdf(-d2)
    IN  IF e # "ok" THEN Raise(e)
        ELSE IF option_type \in CallKinds
             THEN Ok(fdiv(fmul(fmul(fmul(K, t), math_exp(fmul(-r, t))), N_d2), lit(100)))
        ELSE IF option_type \in PutKinds
             THEN Ok(fdiv(fmul(fmul(fmul(-K, t), math_exp(fmul(-r, t))), N_neg_d2), lit(100)))
        ELSE NoneResult

(***************************************************************************)
(* Object-oriented variant, bs_option_pricer_oop.py.  self is the record   *)
(* of the six attributes __init__ sets.                                    *)
(***************************************************************************)
BlackScholesModel(option_type, S, K, r, t, sigma) ==
    [option_type |-> option_type, S |-> S, K |-> K, r |-> r, t |-> t,
     sigma |-> sigma]

calculate_d1_d2_raises(self) ==
    IF self.K = 0 THEN "ZeroDivisionError"
    ELSE IF fdiv(self.S, self.K) <= 0 THEN "ValueError"
    ELSE IF self.t < 0 THEN "ValueError"
    ELSE IF fmul(self.sigma, math_sqrt(self.t)) = 0 THEN "ZeroDivisionError"
    ELSE "ok"

calculate_d1_d2(self) ==
    LET d1 == fdiv(math_log(fdiv(self.S, self.K))
                     + fmul(self.r + fdiv(fmul(self.sigma, self.sigma), lit(2)), self.t),
                   fmul(self.sigma, math_sqrt(self.t)))
        d2 == d1 - fmul(self.sigma, math_sqrt(self.t))
    IN  << d1, d2 >>

\* N_d1, N_d1_gamma_theta_vega, N_d2, N_neg_d1, N_neg_d2
calculate_N_values(d1, d2) ==
    << norm_cdf(d1), norm_pdf(d1), norm_cdf(d2), norm_cdf(-d1), norm_cdf(-d2) >>

calculate_call_price(self, N_d1, N_d2) ==
    Ok(fmul(N_d1, self.S) - fmul(fmul(N_d2, self.K), math_exp(fmul(-self.r, self.t))))

calculate_put_price(self, N_neg_d1, N_neg_d2) ==
    Ok(fmul(fmul(self.K, math_exp(fmul(-self.r, self.t))), N_neg_d2)
         - fmul(self.S, N_neg_d1))

calculate_delta(self, N_d1, N_neg_d1) ==
    IF self.option_type \in CallKinds THEN Ok(N_d1)
    ELSE IF self.option_type \in PutKinds THEN Ok(-N_neg_d1)
    ELSE NoneResult

\* calculate_gamma branching on the option type as calculate_delta does
calculate_gamma_by_kind(self, N_d1_gamma_theta_vega) ==
    LET den == fmul(fmul(self.S, self.sigma), math_sqrt(self.t))
    IN  IF den = 0 THEN Raise("ZeroDivisionError")
        ELSE IF self.option_type \in PutKinds
             THEN Ok(-fdiv(N_d1_gamma_theta_vega, den))
        ELSE Ok(fdiv(N_d1_gamma_theta_vega, den))

calculate_gamma(self, N_d1_gamma_theta_vega) ==
    LET den == fmul(fmul(self.S, self.sigma), math_sqrt(self.t))
    IN  IF den = 0 THEN Raise("ZeroDivisionError")
        ELSE Ok(fdiv(N_d1_gamma_theta_vega, den))

calculate_theta(self, N_d1_gamma_theta_vega, N_d2, N_neg_d2) ==
    LET decay == fdiv(fmul(fmul(-self.S, N_d1_gamma_theta_vega), self.sigma),
                      fmul(lit(2), math_sqrt(self.t)))
        carry == fmul(fmul(self.r, self.K), math_exp(fmul(-self.r, self.t)))
    IN  IF self.option_type \in CallKinds
             THEN Ok(fdiv(decay - fmul(carry, N_d2), lit(365)))
        ELSE IF self.option_type \in PutKinds
             THEN Ok(fdiv(decay + fmul(carry, N_neg_d2), lit(365)))
        ELSE Raise("UnboundLocalError")

\* calculate_vega without the scaling to one percentage point
calculate_vega_unscaled(self, N_d1_gamma_theta_vega) ==
    Ok(fmul(fmul(self.S, math_sqrt(self.t)), N_d1_gamma_theta_vega))

calculate_vega(self, N_d1_gamma_theta_vega) ==
    Ok(fdiv(fmul(fmul(self.S, math_sqrt(self.t)), N_d1_gamma_theta_vega), lit(100)))

calculate_rho(self, N_d2, N_neg_d2) ==
    IF self.option_type \in CallKinds
         THEN Ok(fdiv(fmul(fmul(fmul(self.K, self.t), math_exp(fmul(-self.r, self.t))),
                           N_d2), lit(100)))
    ELSE IF self.option_type \in PutKinds
         THEN Ok(fdiv(fmul(fmul(fmul(-self.K, self.t), math_exp(fmul(-self.r, self.t))),
                           N_neg_d2), lit(100)))
    ELSE NoneResult

\* the tuple calculate_option_metrics returns once its seven values are
\* computed, or the exception one of them raised
option_metrics_result(call_price, put_price, delta_value, gamma_value, theta_value, vega_value, rho_value) ==
    IF gamma_value.tag \notin {"ok", "None"}
         THEN [tag |-> gamma_value.tag, val |-> << >>]
    ELSE IF theta_value.tag \notin {"ok", "None"}
         THEN [tag |-> theta_value.tag, val |-> << >>]
    ELSE [tag |-> "ok",
          val |-> << call_price, put_price, delta_value, gamma_value,
                     theta_value, vega_value, rho_value >>]

\* calculate_option_metrics from the N values on
option_metrics_of_N(self, N) ==
    option_metrics_result(calculate_call_price(self, N[1], N[3]),
                          calculate_put_price(self, N[4], N[5]),
                          calculate_delta(self, N[1], N[4]),
                          calculate_gamma(self, N[2]),
                          calculate_theta(self, N[2], N[3], N[5]),
                          calculate_vega(self, N[2]),
                          calculate_rho(self, N[3], N[5]))

\* calculate_option_metrics from d1, d2 on
option_metrics_of_d(self, d) == option_metrics_of_N(self, calculate_N_values(d[1], d[2]))

\* the outcome of calculate_option_metrics: the 7-tuple it returns, or the
\* first exception raised by a step
calculate_option_metrics(self) ==
    IF calculate_d1_d2_raises(self) # "ok"
    THEN [tag |-> calculate_d1_d2_raises(self), val |-> << >>]
    ELSE option_metrics_of_d(self, calculate_d1_d2(self))

(***************************************************************************)
(* The engine called directly: the arguments of a request are drawn from   *)
(* sets that hold valid and invalid values, and every function of both     *)
(* variants is applied to them for every option type, one call per step.   *)
(***************************************************************************)
VARIABLES args, todo, price, delta_of, theta_of, rho_of, gamma_of, vega_of,
          model, metrics

engineVars == << args, todo, price, delta_of, theta_of, rho_of, gamma_of,
                 vega_of, model, metrics >>

\* two BlackScholesModel objects and the results of the calls made on them
VARIABLES objs, ncalls, first, last

objectVars == << objs, ncalls, first, last >>

\* a run of main: the variant run, the position in it, the line last read,
\* the lines read in the current pass of get_input, the locals of get_input
\* and main, the uncaught exception and the values displayed
VARIABLES variant, pc, line, entered, option_type, S, K, r, t, sigma,
          option_model, option_price, call_price, put_price, delta_value,
          gamma_value, theta_value, vega_value, rho_value, err, shown

inputVars == << option_type, S, K, r, t, sigma >>
resultVars == << option_model, option_price, call_price, put_price, delta_value,
                 gamma_value, theta_value, vega_value, rho_value >>
mainVars == << variant, pc, line, entered, inputVars, resultVars, err, shown >>

vars == << engineVars, objectVars, mainVars >>

STR_X == << "x" >>
EngineKinds == { STR_C, STR_CALL, STR_P, STR_PUT, STR_X }
KindOrder == << STR_C, STR_CALL, STR_P, STR_PUT, STR_X >>

SpotValues == { lit(-5), 0, lit(80), lit(100) }
StrikeValues == { lit(-5), 0, lit(100), lit(125) }
RateValues == { -50, 0, 50 }
MaturityValues == { lit(-1), 0, 82, 500, lit(1) }
VolatilityValues == { -200, 0, 200, 400 }

Unset == [tag |-> "unset", val |-> 0]
IsSet(x) == x.tag # "unset"

\* the calls of one request, in the order they are made
CallsFor(k) == << << "bsmodel", k >>, << "delta", k >>, << "theta", k >>,
                  << "rho", k >>, << "__init__", k >>, << "metrics", k >> >>

RECURSIVE Schedule(_)
Schedule(i) == IF i > Len(KindOrder) THEN << << "gamma", STR_X >>, << "vega", STR_X >> >>
               ELSE CallsFor(KindOrder[i]) \o Schedule(i + 1)

Valid(a) == a.S > 0 /\ a.K > 0 /\ a.t > 0 /\ a.sigma > 0

\* no request is being served
EngineIdle ==
    /\ args = [S |-> 0, K |-> 0, r |-> 0, t |-> 0, sigma |-> 0]
    /\ todo = << >>
    /\ price = [k \in EngineKinds |-> Unset]
    /\ delta_of = [k \in EngineKinds |-> Unset]
    /\ theta_of = [k \in EngineKinds |-> Unset]
    /\ rho_of = [k \in EngineKinds |-> Unset]
    /\ gamma_of = Unset
    /\ vega_of = Unset
    /\ model = [k \in EngineKinds |-> Unset]
    /\ metrics = [k \in EngineKinds |-> Unset]

EngineStart ==
    /\ args \in [S : SpotValues, K : StrikeValues, r : RateValues,
                 t : MaturityValues, sigma : VolatilityValues]
    /\ todo = Schedule(1)
    /\ price = [k \in EngineKinds |-> Unset]
    /\ delta_of = [k \in EngineKinds |-> Unset]
    /\ theta_of = [k \in EngineKinds |-> Unset]
    /\ rho_of = [k \in EngineKinds |-> Unset]
    /\ gamma_of = Unset
    /\ vega_of = Unset
    /\ model = [k \in EngineKinds |-> Unset]
    /\ metrics = [k \in EngineKinds |-> Unset]

Next1(fn) == /\ todo # << >>
             /\ Head(todo)[1] = fn
             /\ todo' = Tail(todo)

CallBsmodel ==
    /\ Next1("bsmodel")
    /\ LET k == Head(todo)[2]
       IN  price' = [price EXCEPT ![k] = bsmodel(k, args.S, args.K, args.r, args.t, args.sigma)]
    /\ UNCHANGED << args, delta_of, theta_of, rho_of, gamma_of, vega_of, model, metrics >>
    /\ UNCHANGED << objectVars, mainVars >>

CallDelta ==
    /\ Next1("delta")
    /\ LET k == Head(todo)[2]
       IN  delta_of' = [delta_of EXCEPT ![k] = delta(k, args.S, args.K, args.r, args.t, args.sigma)]
    /\ UNCHANGED << args, price, theta_of, rho_of, gamma_of, vega_of, model, metrics >>
    /\ UNCHANGED << objectVars, mainVars >>

CallTheta ==
    /\ Next1("theta")
    /\ LET k == Head(todo)[2]
       IN  theta_of' = [theta_of EXCEPT ![k] = theta(k, args.S, args.K, args.r, args.t, args.sigma)]
    /\ UNCHANGED << args, price, delta_of, rho_of, gamma_of, vega_of, model, metrics >>
    /\ UNCHANGED << objectVars, mainVars >>

CallRho ==
    /\ Next1("rho")
    /\ LET k == Head(todo)[2]
       IN  rho_of' = [rho_of EXCEPT ![k] = rho(k, args.S, args.K, args.r, args.t, args.sigma)]
    /\ UNCHANGED << args, price, delta_of, theta_of, gamma_of, vega_of, model, metrics >>
    /\ UNCHANGED << objectVars, mainVars >>

CallGamma ==
    /\ Next1("gamma")
    /\ gamma_of' = gamma(args.S, args.K, args.r, args.t, args.sigma)
    /\ UNCHANGED << args, price, delta_of, theta_of, rho_of, vega_of, model, metrics >>
    /\ UNCHANGED << objectVars, mainVars >>

CallVega ==
    /\ Next1("vega")
    /\ vega_of' = vega(args.S, args.K, args.r, args.t, args.sigma)
    /\ UNCHANGED << args, price, delta_of, theta_of, rho_of, gamma_of, model, metrics >>
    /\ UNCHANGED << objectVars, mainVars >>

Construct ==
    /\ Next1("__init__")
    /\ LET k == Head(todo)[2]
       IN  model' = [model EXCEPT ![k] =
                       BlackScholesModel(k, args.S, args.K, args.r, args.t, args.sigma)]
    /\ UNCHANGED << args, price, delta_of, theta_of, rho_of, gamma_of, vega_of, metrics >>
    /\ UNCHANGED << objectVars, mainVars >>

CallMetrics ==
    /\ Next1("metrics")
    /\ LET k == Head(todo)[2]
       IN  metrics' = [metrics EXCEPT ![k] = calculate_option_metrics(model[k])]
    /\ UNCHANGED << args, price, delta_of, theta_of, rho_of, gamma_of, vega_of, model >>
    /\ UNCHANGED << objectVars, mainVars >>

EngineNext == \/ CallBsmodel \/ CallDelta \/ CallTheta \/ CallRho
              \/ CallGamma \/ CallVega \/ Construct \/ CallMetrics



\* the seven values of a returned metrics tuple
CallPrice(m) == m.val[1]
PutPrice(m) == m.val[2]
DeltaValue(m) == m.val[3]
GammaValue(m) == m.val[4]
ThetaValue(m) == m.val[5]
VegaValue(m) == m.val[6]
RhoValue(m) == m.val[7]

(***************************************************************************)
(* BlackScholesModel objects used by a caller: two objects are constructed *)
(* and calculate_option_metrics is called on them in any order.            *)
(***************************************************************************)
MaxCalls == 2

ObjIds == { 1, 2 }
ObjectKinds == { STR_C, STR_PUT, STR_X }
ObjectSpots == { 0, lit(100) }
ObjectMaturities == { 500, lit(1) }

\* calculate_option_metrics storing the maturity back in years
self_after_metrics_rescaled(self) == [self EXCEPT !.t = fdiv(self.t, lit(365))]

\* self after calculate_option_metrics returned or raised: neither it nor a
\* method it calls assigns an attribute
self_after_metrics(self) == self

ObjectsIdle ==
    /\ objs = [o \in ObjIds |-> Unset]
    /\ ncalls = [o \in ObjIds |-> 0]
    /\ first = [o \in ObjIds |-> Unset]
    /\ last = [o \in ObjIds |-> Unset]

New(o) ==
    /\ objs[o] = Unset
    /\ \E k \in ObjectKinds, s0 \in ObjectSpots, t0 \in ObjectMaturities :
         objs' = [objs EXCEPT ![o] = BlackScholesModel(k, s0, lit(100), 50, t0, 200)]
    /\ UNCHANGED << ncalls, first, last >>
    /\ UNCHANGED << engineVars, mainVars >>

Metrics(o) ==
    /\ objs[o] # Unset
    /\ ncalls[o] < MaxCalls
    /\ LET m == calculate_option_metrics(objs[o])
       IN  /\ last' = [last EXCEPT ![o] = m]
           /\ first' = IF ncalls[o] = 0 THEN [first EXCEPT ![o] = m] ELSE first
    /\ objs' = [objs EXCEPT ![o] = self_after_metrics(objs[o])]
    /\ ncalls' = [ncalls EXCEPT ![o] = @ + 1]
    /\ UNCHANGED << engineVars, mainVars >>

ObjectsNext == \E o \in ObjIds : New(o) \/ Metrics(o)

(***************************************************************************)
(* main and get_input of the two variants                                  *)
(***************************************************************************)
TypeEntries == { << "c" >>, << "C", "A", "L", "L" >>, << "p" >>, << "P", "u", "t" >>,
                 << "x" >>, << >> }
SpotEntries == { << "1", "0", "0" >>, << "9", "9", ",", "5" >>, << "0" >>,
                 << "-", "5" >>, << "x" >> }
StrikeEntries == { << "1", "0", "0" >>, << "8", "0" >>, << "0" >>, << "1", ".", "." >> }
RateEntries == { << "0", ".", "0", "5" >>, << "5", "%" >>, << "0", ",", "0", "5" >>,
                 << "-", "1", "%" >>, << "%" >> }
MaturityEntries == { << "1" >>, << "3", "6", "5" >>, << "0", ".", "5" >>, << "3", "0" >>,
                     << "0" >>, << "-", "1" >>, << "a" >> }
VolatilityEntries == { << "0", ".", "2" >>, << "2", "0", "%" >>, << "0" >>,
                       << "-", "0", ".", "2" >>, << "0", ",", "4" >>, << "-" >> }

NoEntries == [option_type |-> << >>, S |-> << >>, K |-> << >>, r |-> << >>,
              t |-> << >>, sigma |-> << >>]

MainIdle ==
    /\ variant = "none"
    /\ pc = "exit"
    /\ line = << >>
    /\ entered = NoEntries
    /\ option_type = << >> /\ S = 0 /\ K = 0 /\ r = 0 /\ t = 0 /\ sigma = 0
    /\ option_model = Unset /\ option_price = Unset /\ call_price = Unset
    /\ put_price = Unset /\ delta_value = Unset /\ gamma_value = Unset
    /\ theta_value = Unset /\ vega_value = Unset /\ rho_value = Unset
    /\ err = "none"
    /\ shown = << >>

\* the program starts: main calls get_input, which prompts for the option type
MainStart ==
    /\ variant \in { "procedural", "oop" }
    /\ pc = "option_type"
    /\ line = << >>
    /\ entered = NoEntries
    /\ option_type = << >> /\ S = 0 /\ K = 0 /\ r = 0 /\ t = 0 /\ sigma = 0
    /\ option_model = Unset /\ option_price = Unset /\ call_price = Unset
    /\ put_price = Unset /\ delta_value = Unset /\ gamma_value = Unset
    /\ theta_value = Unset /\ vega_value = Unset /\ rho_value = Unset
    /\ err = "none"
    /\ shown = << >>

\* except ValueError: print the message and start the loop body again
Reprompt ==
    /\ pc' = "option_type"
    /\ entered' = NoEntries

\* the day conversion applied from 1 on instead of above 1
maturity_in_years_from_one(x) == IF x >= lit(1) THEN fdiv(x, lit(365)) ELSE x

\* t as get_input returns it: an entry above 1 is taken as days
maturity_in_years(x) == IF x > lit(1) THEN fdiv(x, lit(365)) ELSE x

\* r and sigma in the procedural get_input: the entry with the decimal comma
\* replaced; a percentage loses its sign and is divided by 100
proc_percent_input(entry) ==
    LET text == replace(entry, ",", << "." >>)
        pct == float(replace(text, "%", << >>))
    IN  IF contains(text, "%")
        THEN IF pct.tag = "ok" THEN Ok(fdiv(pct.val, lit(100))) ELSE pct
        ELSE float(text)

\* r and sigma in the object-oriented get_input: float() is applied first and
\* the percent test reads str() of the float it returned
oop_percent_input(entry) ==
    LET text == replace(entry, ",", << "." >>)
        x == float(text)
    IN  IF x.tag # "ok" THEN x
        ELSE IF contains(str(x.val), "%") THEN Raise("AttributeError")
        ELSE x

percent_input(entry) == IF variant = "procedural" THEN proc_percent_input(entry)
                        ELSE oop_percent_input(entry)

GetOptionType ==
    /\ pc = "option_type"
    /\ \E entry \in TypeEntries :
         /\ line' = entry
         /\ option_type' = lower(entry)
         /\ IF lower(entry) \notin { STR_C, STR_CALL, STR_P, STR_PUT }
            THEN Reprompt
            ELSE /\ pc' = "S"
                 /\ entered' = [entered EXCEPT !.option_type = entry]
    /\ UNCHANGED << variant, S, K, r, t, sigma, resultVars, err, shown >>
    /\ UNCHANGED << engineVars, objectVars >>

GetS ==
    /\ pc = "S"
    /\ \E entry \in SpotEntries :
         LET x == float(replace(entry, ",", << "." >>))
         IN  /\ line' = entry
             /\ IF x.tag = "ok"
                THEN /\ S' = x.val
                     /\ pc' = "K"
                     /\ entered' = [entered EXCEPT !.S = entry]
                ELSE Reprompt /\ UNCHANGED S
    /\ UNCHANGED << variant, option_type, K, r, t, sigma, resultVars, err, shown >>
    /\ UNCHANGED << engineVars, objectVars >>

GetK ==
    /\ pc = "K"
    /\ \E entry \in StrikeEntries :
         LET x == float(replace(entry, ",", << "." >>))
         IN  /\ line' = entry
             /\ IF x.tag = "ok"
                THEN /\ K' = x.val
                     /\ pc' = "r"
                     /\ entered' = [entered EXCEPT !.K = entry]
                ELSE Reprompt /\ UNCHANGED K
    /\ UNCHANGED << variant, option_type, S, r, t, sigma, resultVars, err, shown >>
    /\ UNCHANGED << engineVars, objectVars >>

GetR ==
    /\ pc = "r"
    /\ \E entry \in RateEntries :
         LET x == percent_input(entry)
         IN  /\ line' = entry
             /\ IF x.tag = "ok"
                THEN /\ r' = x.val
                     /\ pc' = "t"
                     /\ entered' = [entered EXCEPT !.r = entry]
                     /\ UNCHANGED err
                ELSE IF x.tag = "ValueError"
                THEN Reprompt /\ UNCHANGED << r, err >>
                ELSE pc' = "crashed" /\ err' = x.tag /\ UNCHANGED << r, entered >>
    /\ UNCHANGED << variant, option_type, S, K, t, sigma, resultVars, shown >>
    /\ UNCHANGED << engineVars, objectVars >>

GetT ==
    /\ pc = "t"
    /\ \E entry \in MaturityEntries :
         LET x == float(replace(entry, ",", << "." >>))
         IN  /\ line' = entry
             /\ IF x.tag = "ok"
                THEN /\ t' = maturity_in_years(x.val)
                     /\ pc' = "sigma"
                     /\ entered' = [entered EXCEPT !.t = entry]
                ELSE Reprompt /\ UNCHANGED t
    /\ UNCHANGED << variant, option_type, S, K, r, sigma, resultVars, err, shown >>
    /\ UNCHANGED << engineVars, objectVars >>

\* the last prompt: get_input returns and main goes on to its first call
GetSigma ==
    /\ pc = "sigma"
    /\ \E entry \in VolatilityEntries :
         LET x == percent_input(entry)
         IN  /\ line' = entry
             /\ IF x.tag = "ok"
                THEN /\ sigma' = x.val
                     /\ pc' = IF variant = "procedural" THEN "bsmodel" ELSE "__init__"
                     /\ entered' = [entered EXCEPT !.sigma = entry]
                     /\ UNCHANGED err
                ELSE IF x.tag = "ValueError"
                THEN Reprompt /\ UNCHANGED << sigma, err >>
                ELSE pc' = "crashed" /\ err' = x.tag /\ UNCHANGED << sigma, entered >>
    /\ UNCHANGED << variant, option_type, S, K, r, t, resultVars, shown >>
    /\ UNCHANGED << engineVars, objectVars >>

\* a call of main: the value is assigned, or the exception ends the program
Returns(x, to) == /\ x.tag \in { "ok", "None" }
                  /\ pc' = to
                  /\ UNCHANGED err
Crashes(x) == /\ x.tag \notin { "ok", "None" }
              /\ pc' = "crashed"
              /\ err' = x.tag

MainBsmodel ==
    /\ pc = "bsmodel"
    /\ LET x == bsmodel(option_type, S, K, r, t, sigma)
       IN  \/ Returns(x, "delta") /\ option_price' = x
           \/ Crashes(x) /\ UNCHANGED option_price
    /\ UNCHANGED << variant, line, entered, inputVars, option_model, call_price,
                    put_price, delta_value, gamma_value, theta_value, vega_value,
                    rho_value, shown >>
    /\ UNCHANGED << engineVars, objectVars >>

MainDelta ==
    /\ pc = "delta"
    /\ LET x == delta(option_type, S, K, r, t, sigma)
       IN  \/ Returns(x, "gamma") /\ delta_value' = x
           \/ Crashes(x) /\ UNCHANGED delta_value
    /\ UNCHANGED << variant, line, entered, inputVars, option_model, option_price,
                    call_price, put_price, gamma_value, theta_value, vega_value,
                    rho_value, shown >>
    /\ UNCHANGED << engineVars, objectVars >>

MainGamma ==
    /\ pc = "gamma"
    /\ LET x == gamma(S, K, r, t, sigma)
       IN  \/ Returns(x, "theta") /\ gamma_value' = x
           \/ Crashes(x) /\ UNCHANGED gamma_value
    /\ UNCHANGED << variant, line, entered, inputVars, option_model, option_price,
                    call_price, put_price, delta_value, theta_value, vega_value,
                    rho_value, shown >>
    /\ UNCHANGED << engineVars, objectVars >>

MainTheta ==
    /\ pc = "theta"
    /\ LET x == theta(option_type, S, K, r, t, sigma)
       IN  \/ Returns(x, "vega") /\ theta_value' = x
           \/ Crashes(x) /\ UNCHANGED theta_value
    /\ UNCHANGED << variant, line, entered, inputVars, option_model, option_price,
                    call_price, put_price, delta_value, gamma_value, vega_value,
                    rho_value, shown >>
    /\ UNCHANGED << engineVars, objectVars >>

MainVega ==
    /\ pc = "vega"
    /\ LET x == vega(S, K, r, t, sigma)
       IN  \/ Returns(x, "rho") /\ vega_value' = x
           \/ Crashes(x) /\ UNCHANGED vega_value
    /\ UNCHANGED << variant, line, entered, inputVars, option_model, option_price,
                    call_price, put_price, delta_value, gamma_value, theta_value,
                    rho_value, shown >>
    /\ UNCHANGED << engineVars, objectVars >>

MainRho ==
    /\ pc = "rho"
    /\ LET x == rho(option_type, S, K, r, t, sigma)
       IN  \/ Returns(x, "display") /\ rho_value' = x
           \/ Crashes(x) /\ UNCHANGED rho_value
    /\ UNCHANGED << variant, line, entered, inputVars, option_model, option_price,
                    call_price, put_price, delta_value, gamma_value, theta_value,
                    vega_value, shown >>
    /\ UNCHANGED << engineVars, objectVars >>

\* the seven values are assigned, or the exception ends the program
AssignMetrics(m) ==
    \/ /\ m.tag = "ok"
       /\ call_price' = CallPrice(m) /\ put_price' = PutPrice(m)
       /\ delta_value' = DeltaValue(m) /\ gamma_value' = GammaValue(m)
       /\ theta_value' = ThetaValue(m) /\ vega_value' = VegaValue(m)
       /\ rho_value' = RhoValue(m)
       /\ pc' = "display"
       /\ UNCHANGED err
    \/ /\ m.tag # "ok"
       /\ pc' = "crashed"
       /\ err' = m.tag
       /\ UNCHANGED << call_price, put_price, delta_value, gamma_value,
                       theta_value, vega_value, rho_value >>

MainConstruct ==
    /\ pc = "__init__"
    /\ option_model' = BlackScholesModel(option_type, S, K, r, t, sigma)
    /\ pc' = "metrics"
    /\ UNCHANGED << variant, line, entered, inputVars, option_price, call_price,
                    put_price, delta_value, gamma_value, theta_value, vega_value,
                    rho_value, err, shown >>
    /\ UNCHANGED << engineVars, objectVars >>

MainMetrics ==
    /\ pc = "metrics"
    /\ AssignMetrics(calculate_option_metrics(option_model))
    /\ option_model' = self_after_metrics(option_model)
    /\ UNCHANGED << variant, line, entered, inputVars, option_price, shown >>
    /\ UNCHANGED << engineVars, objectVars >>

\* the price of the option type entered, then the five Greeks
MainDisplay ==
    /\ pc = "display"
    /\ shown' = << IF variant = "procedural" THEN option_price
                   ELSE IF option_type \in CallKinds THEN call_price
                   ELSE put_price,
                   delta_value, gamma_value, theta_value, vega_value, rho_value >>
    /\ pc' = "exit"
    /\ UNCHANGED << variant, line, entered, inputVars, resultVars, err >>
    /\ UNCHANGED << engineVars, objectVars >>

MainNext == \/ GetOptionType \/ GetS \/ GetK \/ GetR \/ GetT \/ GetSigma
            \/ MainBsmodel \/ MainDelta \/ MainGamma \/ MainTheta \/ MainVega
            \/ MainRho \/ MainConstruct \/ MainMetrics \/ MainDisplay

(***************************************************************************)
(* Specifications                                                          *)
(***************************************************************************)
\* a run of main of either variant
Init == MainStart /\ EngineIdle /\ ObjectsIdle
Next == MainNext
Spec == Init /\ [][Next]_vars

\* the engine functions of both variants applied to drawn arguments
EngineInit == EngineStart /\ ObjectsIdle /\ MainIdle
SpecEngine == EngineInit /\ [][EngineNext]_vars

\* objects constructed and evaluated by a caller
ObjectsInit == ObjectsIdle /\ EngineIdle /\ MainIdle
SpecObjects == ObjectsInit /\ [][ObjectsNext]_vars

(***************************************************************************)
(* Properties of the engine                                                *)
(***************************************************************************)
ValidKinds == CallKinds \cup PutKinds

\* S - K*e^(-r*t) for the arguments of the request
ParityRhs == args.S - fmul(args.K, math_exp(fmul(-args.r, args.t)))

\* |x - y| is at most n units in the last place
Within(x, y, n) == Abs(x - y) <= n

\* C1: for S, K, t, sigma > 0 the call price and the put price computed from
\* the same inputs satisfy call - put = S - K*e^(-r*t), up to the rounding of
\* the arithmetic (three units in the last place), for bsmodel and for the
\* call_price and put_price of calculate_option_metrics.
C1_PutCallParity ==
    Valid(args) =>
      /\ \A c \in CallKinds, p \in PutKinds :
           (IsSet(price[c]) /\ IsSet(price[p])) =>
             /\ price[c].tag = "ok" /\ price[p].tag = "ok"
             /\ Within(price[c].val - price[p].val, ParityRhs, 3)
      /\ \A k \in ValidKinds :
           IsSet(metrics[k]) =>
             /\ metrics[k].tag = "ok"
             /\ metrics[k].val[1].tag = "ok" /\ metrics[k].val[2].tag = "ok"
             /\ Within(metrics[k].val[1].val - metrics[k].val[2].val, ParityRhs, 3)

C1_Witness ==
    /\ Valid(args)
    /\ price[STR_CALL].tag = "ok" /\ price[STR_P].tag = "ok"
    /\ price[STR_CALL].val > 0 /\ price[STR_P].val > 0
    /\ price[STR_CALL].val # price[STR_P].val
    /\ metrics[STR_P].tag = "ok"
    /\ args.r # 0


\* C4: for S, K, t, sigma > 0 the delta of a call lies in [0, 1] and the
\* delta of a put in [-1, 0], for delta() and for calculate_delta.
C4_DeltaBounds ==
    Valid(args) =>
      \A k \in ValidKinds :
        /\ IsSet(delta_of[k]) =>
             /\ delta_of[k].tag = "ok"
             /\ k \in CallKinds => (0 <= delta_of[k].val /\ delta_of[k].val <= ONE)
             /\ k \in PutKinds => (-ONE <= delta_of[k].val /\ delta_of[k].val <= 0)
        /\ IsSet(metrics[k]) =>
             /\ metrics[k].tag = "ok" /\ DeltaValue(metrics[k]).tag = "ok"
             /\ k \in CallKinds => (0 <= DeltaValue(metrics[k]).val
                                     /\ DeltaValue(metrics[k]).val <= ONE)
             /\ k \in PutKinds => (-ONE <= DeltaValue(metrics[k]).val
                                    /\ DeltaValue(metrics[k]).val <= 0)

C4_Witness ==
    /\ Valid(args)
    /\ delta_of[STR_C].tag = "ok" /\ delta_of[STR_C].val > 0 /\ delta_of[STR_C].val < ONE
    /\ delta_of[STR_PUT].tag = "ok" /\ delta_of[STR_PUT].val < 0
    /\ metrics[STR_PUT].tag = "ok" /\ DeltaValue(metrics[STR_PUT]).val < 0

\* C5: for S, K, t, sigma > 0 gamma >= 0 and vega >= 0, and two contracts
\* that differ only in the option type get the same gamma and the same vega.
C5_GammaVega ==
    Valid(args) =>
      /\ IsSet(gamma_of) => (gamma_of.tag = "ok" /\ gamma_of.val >= 0)
      /\ IsSet(vega_of) => (vega_of.tag = "ok" /\ vega_of.val >= 0)
      /\ \A k \in ValidKinds :
           IsSet(metrics[k]) =>
             /\ metrics[k].tag = "ok"
             /\ GammaValue(metrics[k]).tag = "ok" /\ GammaValue(metrics[k]).val >= 0
             /\ VegaValue(metrics[k]).tag = "ok" /\ VegaValue(metrics[k]).val >= 0
      /\ \A k1 \in ValidKinds, k2 \in ValidKinds :
           (IsSet(metrics[k1]) /\ IsSet(metrics[k2])) =>
             /\ GammaValue(metrics[k1]) = GammaValue(metrics[k2])
             /\ VegaValue(metrics[k1]) = VegaValue(metrics[k2])

C5_Witness ==
    /\ Valid(args)
    /\ gamma_of.tag = "ok" /\ gamma_of.val > 0
    /\ vega_of.tag = "ok" /\ vega_of.val > 0
    /\ metrics[STR_C].tag = "ok" /\ metrics[STR_PUT].tag = "ok"
    /\ GammaValue(metrics[STR_PUT]).val > 0
    /\ DeltaValue(metrics[STR_C]) # DeltaValue(metrics[STR_PUT])

\* C9: for every option type in c, call, p, put and S, K, t, sigma > 0, the
\* price for that type and delta, gamma, theta, vega and rho of the
\* procedural functions equal the values calculate_option_metrics returns.
C9_VariantsAgree ==
    Valid(args) =>
      \A k \in ValidKinds :
        IsSet(metrics[k]) =>
          /\ metrics[k].tag = "ok"
          /\ IsSet(price[k]) =>
               price[k] = IF k \in CallKinds THEN CallPrice(metrics[k])
                                            ELSE PutPrice(metrics[k])
          /\ IsSet(delta_of[k]) => delta_of[k] = DeltaValue(metrics[k])
          /\ IsSet(gamma_of) => gamma_of = GammaValue(metrics[k])
          /\ IsSet(theta_of[k]) => theta_of[k] = ThetaValue(metrics[k])
          /\ IsSet(vega_of) => vega_of = VegaValue(metrics[k])
          /\ IsSet(rho_of[k]) => rho_of[k] = RhoValue(metrics[k])

C9_Witness ==
    /\ Valid(args)
    /\ todo = << >>
    /\ metrics[STR_CALL].tag = "ok" /\ metrics[STR_P].tag = "ok"
    /\ price[STR_P].tag = "ok" /\ price[STR_P].val > 0
    /\ theta_of[STR_CALL].tag = "ok" /\ theta_of[STR_CALL].val < 0
    /\ rho_of[STR_P].tag = "ok" /\ rho_of[STR_P].val < 0
    /\ vega_of.tag = "ok" /\ vega_of.val > 0

\* every result the request has obtained so far, of either variant
Outcomes ==
    { price[k].tag : k \in EngineKinds } \cup { delta_of[k].tag : k \in EngineKinds }
      \cup { theta_of[k].tag : k \in EngineKinds } \cup { rho_of[k].tag : k \in EngineKinds }
      \cup { gamma_of.tag, vega_of.tag } \cup { metrics[k].tag : k \in EngineKinds }

\* C2: whenever spot, strike, maturity or volatility is <= 0, every engine
\* operation and the evaluation of a BlackScholesModel fail with InvalidInput:
\* no other exception and no value is the outcome.
C2_InvalidInputRejected ==
    ~Valid(args) => Outcomes \subseteq { "unset", "InvalidInput" }

\* C3: when the option type is not one of c, call, p, put, the price, delta,
\* theta and rho of both variants fail with InvalidInput: none returns None
\* or raises another exception.
C3_UnknownKindRejected ==
    Valid(args) =>
      { price[STR_X].tag, delta_of[STR_X].tag, theta_of[STR_X].tag, rho_of[STR_X].tag,
        metrics[STR_X].tag } \subseteq { "unset", "InvalidInput" }


(***************************************************************************)
(* Properties of get_input and main                                        *)
(***************************************************************************)
AfterGetInput == { "bsmodel", "delta", "gamma", "theta", "vega", "rho", "__init__",
                   "metrics", "display", "exit", "crashed" }

\* the number a line denotes once its decimal comma is a point
NumberOf(entry) == float(replace(entry, ",", << "." >>))

\* a number followed by a percent sign
IsPercentage(entry) ==
    /\ Len(entry) >= 2
    /\ entry[Len(entry)] = "%"
    /\ NumberOf(SubSeq(entry, 1, Len(entry) - 1)).tag = "ok"

\* the value the collector is to return for a rate or volatility entry
PercentValue(entry) ==
    IF IsPercentage(entry)
    THEN RoundDiv(NumberOf(SubSeq(entry, 1, Len(entry) - 1)).val, 100)
    ELSE NumberOf(entry).val

\* C6: in both variants a rate or volatility entered as a number followed by
\* '%' is accepted and returned as the number divided by 100, and an entry
\* without '%' is returned as the number itself.
C6_PercentageAccepted ==
    [][ /\ (pc = "r" /\ (IsPercentage(line') \/ NumberOf(line').tag = "ok"))
           => (pc' = "t" /\ r' = PercentValue(line'))
        /\ (pc = "sigma" /\ (IsPercentage(line') \/ NumberOf(line').tag = "ok"))
           => (pc' \in AfterGetInput /\ pc' # "crashed"
               /\ sigma' = PercentValue(line')) ]_vars

\* the maturity in years of the line entered at the maturity prompt
EnteredYears == LET x == NumberOf(entered.t).val
                IN  IF x > 1000 THEN RoundDiv(x * 1000, 365000) ELSE x

SameAsOneYear ==
    /\ variant = "procedural" =>
         /\ shown[1] = bsmodel(option_type, S, K, r, lit(1), sigma)
         /\ shown[2] = delta(option_type, S, K, r, lit(1), sigma)
         /\ shown[3] = gamma(S, K, r, lit(1), sigma)
         /\ shown[4] = theta(option_type, S, K, r, lit(1), sigma)
         /\ shown[5] = vega(S, K, r, lit(1), sigma)
         /\ shown[6] = rho(option_type, S, K, r, lit(1), sigma)
    /\ variant = "oop" =>
         LET m == calculate_option_metrics(
                    BlackScholesModel(option_type, S, K, r, lit(1), sigma))
         IN  /\ shown[1] = IF option_type \in CallKinds THEN CallPrice(m)
                                                       ELSE PutPrice(m)
             /\ shown[2] = DeltaValue(m) /\ shown[3] = GammaValue(m)
             /\ shown[4] = ThetaValue(m) /\ shown[5] = VegaValue(m)
             /\ shown[6] = RhoValue(m)

\* C7: get_input turns an entered maturity above 1 into entered/365 years and
\* leaves one of at most 1 unchanged, so a maturity entered as 365 and one
\* entered as 1 both reach the engine as t = 1.0 and the values displayed
\* are those of a one-year contract with the other five inputs.
C7_MaturityEncoding ==
    (entered.t # << >> /\ pc # "t") =>
      /\ t = EnteredYears
      /\ entered.t \in { << "3", "6", "5" >>, << "1" >> } =>
           /\ t = 1000
           /\ pc = "exit" => SameAsOneYear

C7_Witness ==
    /\ pc = "exit"
    /\ entered.t = << "3", "6", "5" >>
    /\ shown[1].tag = "ok" /\ shown[1].val > 0
    /\ shown[4].tag = "ok" /\ shown[4].val < 0

\* C8: get_input returns only a tuple that satisfies the engine's
\* preconditions: the option type is c, call, p or put and S, K, t and sigma
\* are > 0, so no run of main reaches an engine computation with other input.
C8_ReturnedTupleValid ==
    pc \in AfterGetInput =>
      /\ option_type \in ValidKinds
      /\ S > 0 /\ K > 0 /\ t > 0 /\ sigma > 0

=============================================================================
